---- MODULE Spec2Model ----
(***************************************************************************)
(* Stripe Payment Monitor (src/index.js): the webhook dispatcher, the      *)
(* event normalizer, the two side-effect channels, the manual test route   *)
(* and the in-memory log, as a state machine.                              *)
(*                                                                         *)
(* One action is one turn of the Node event loop: a handler runs from its  *)
(* entry, or from the completion of the external call it awaits, up to the *)
(* next external call (gmail.users.messages.send, table.create) or to its  *)
(* response.  The continuations of an await on a call that has already     *)
(* settled run in the same turn; addLog is synchronous and atomic.         *)
(*                                                                         *)
(*   Spec       the handlers of POST /webhook/stripe, each invoked with    *)
(*              the request as constructEvent expects it (req.body the raw *)
(*              bytes) or not, several deliveries in flight                *)
(*   SpecTest   the handler of POST /test, several requests in flight      *)
(*   SpecChain  POST /webhook/stripe behind the middleware chain of lines  *)
(*              29-30 (express.json, then express.raw)                     *)
(*   SpecLog    the log under a long sequence of requests and GET /logs    *)
(*   SpecNorm   one delivery over every shape of upstream payload          *)
(***************************************************************************)
EXTENDS Integers, Sequences, FiniteSets, TLC

(***************************************************************************)
(* JavaScript values.  Strings and numbers are tagged so that a value can  *)
(* be compared with undefined or null.                                     *)
(***************************************************************************)
Undefined == [undefined |-> TRUE]
JsNull == [null |-> TRUE]
Str(s) == [str |-> s]
Num(n) == [num |-> n]
IsString(v) == DOMAIN v = {"str"}

\* o.f : a property the object does not have reads as undefined
Get(o, f) == IF f \in DOMAIN o THEN o[f] ELSE Undefined

\* o?.f : undefined when o is undefined or null
OptGet(o, f) == IF o \in {Undefined, JsNull} THEN Undefined ELSE Get(o, f)

\* ToBoolean, over the values the payloads hold
Truthy(v) == v \notin {Undefined, JsNull, Str(""), Num(0)}

\* a || b
Or(a, b) == IF Truthy(a) THEN a ELSE b

\* s.slice(start) on an array
SliceFrom(s, start) ==
  LET len == Len(s)
      k == IF start < 0
             THEN (IF len + start > 0 THEN len + start ELSE 0)
             ELSE (IF start < len THEN start ELSE len)
  IN SubSeq(s, k + 1, len)

(***************************************************************************)
(* new Date(sec * 1000).toISOString(): the UTC calendar fields of an       *)
(* instant given in epoch seconds (proleptic Gregorian calendar).  The     *)
(* instant is kept in seconds; its millisecond part is 0.                  *)
(***************************************************************************)
CivilFromDays(days) ==
  LET z == days + 719468
      era == z \div 146097
      doe == z - era * 146097
      yoe == (doe - doe \div 1460 + doe \div 36524 - doe \div 146096) \div 365
      doy == doe - (365 * yoe + yoe \div 4 - yoe \div 100)
      mp == (5 * doy + 2) \div 153
      d == doy - (153 * mp + 2) \div 5 + 1
      m == IF mp < 10 THEN mp + 3 ELSE mp - 9
      y == yoe + era * 400 + (IF m <= 2 THEN 1 ELSE 0)
  IN [year |-> y, month |-> m, day |-> d]

\* the instant read as milliseconds: new Date(sec).toISOString()
ToISOStringOfMillis(sec) ==
  LET whole == sec \div 1000
      date == CivilFromDays(whole \div 86400)
      rest == whole % 86400
  IN Str(<<date.year, date.month, date.day,
           rest \div 3600, (rest % 3600) \div 60, rest % 60, sec % 1000>>)

ToISOString(sec) ==
  LET date == CivilFromDays(sec \div 86400)
      rest == sec % 86400
  IN Str(<<date.year, date.month, date.day,
           rest \div 3600, (rest % 3600) \div 60, rest % 60, 0>>)

(***************************************************************************)
(* Bounds of the model.                                                    *)
(***************************************************************************)
\* requests taken in Spec, SpecChain and SpecNorm (each in its own slot)
MaxDeliveries == 2
\* log appends after which SpecLog takes no further request
MaxLogged == 53
\* log appends made by earlier requests before the deliveries of SpecBusy arrive
LoggedBefore == 47

Deliveries == 1 .. MaxDeliveries

(***************************************************************************)
(* Upstream payloads.  id, amount, currency and the envelope's created are *)
(* always present in a Stripe event; the other sub-fields are optional.    *)
(***************************************************************************)
RecognizedTypes ==
  {"payment_intent.payment_failed", "invoice.payment_failed", "charge.failed"}

Envelope(type, created, object) ==
  [type |-> type, created |-> created, data |-> [object |-> object]]

Emails == {Undefined, JsNull, Str(""), Str("a@b.com")}
PaymentErrors ==
  {Undefined, JsNull,
   [code |-> Str("card_declined"), message |-> Str("Your card was declined.")],
   [message |-> Str("Your card was declined.")]}
FailureCodes == {Undefined, JsNull, Str("card_declined")}
FailureMessages == {Undefined, Str("Your card was declined.")}
BillingDetails ==
  {Undefined, [email |-> JsNull], [email |-> Str("")], [email |-> Str("bill@b.com")]}
CreatedTimes == {951782399, 1709251199, 1756505314}

PaymentIntents ==
  {[id |-> Str("pi_1"), amount |-> Num(2500), currency |-> Str("usd"),
    receipt_email |-> e, last_payment_error |-> l] :
     e \in Emails, l \in PaymentErrors}
Invoices ==
  {[id |-> Str("in_1"), amount_due |-> Num(990), currency |-> Str("eur"),
    customer_email |-> e] : e \in Emails}
Charges ==
  {[id |-> Str("ch_1"), amount |-> Num(2500), currency |-> Str("usd"),
    receipt_email |-> e, billing_details |-> b,
    failure_code |-> c, failure_message |-> m] :
     e \in Emails, b \in BillingDetails, c \in FailureCodes, m \in FailureMessages}
Customers == {[id |-> Str("cus_1"), email |-> Str("a@b.com")]}

\* every shape of upstream event (SpecNorm)
AllEvents ==
  {Envelope("payment_intent.payment_failed", t, o) : t \in CreatedTimes, o \in PaymentIntents}
  \cup {Envelope("invoice.payment_failed", t, o) : t \in CreatedTimes, o \in Invoices}
  \cup {Envelope("charge.failed", t, o) : t \in CreatedTimes, o \in Charges}
  \cup {Envelope("customer.created", t, o) : t \in CreatedTimes, o \in Customers}

\* an invoice, a charge and an event of no recognized type (Spec, SpecChain and
\* SpecLog); SpecNorm takes every event of AllEvents
SomeEvents ==
  {Envelope("invoice.payment_failed", 1756505314,
     [id |-> Str("in_1"), amount_due |-> Num(990), currency |-> Str("eur"),
      customer_email |-> Str("a@b.com")]),
   Envelope("charge.failed", 1756505314,
     [id |-> Str("ch_1"), amount |-> Num(2500), currency |-> Str("usd"),
      receipt_email |-> Str("a@b.com"), billing_details |-> [email |-> JsNull],
      failure_code |-> Str("card_declined"),
      failure_message |-> Str("Your card was declined.")]),
   Envelope("customer.created", 1756505314,
     [id |-> Str("cus_1"), email |-> Str("a@b.com")])}

(***************************************************************************)
(* processFailedPayment, lines 127-162: the record built from the event.   *)
(***************************************************************************)
EmptyObject == [f \in {} |-> Undefined]

\* lines 130-139
FromPaymentIntent(event) ==
  LET paymentIntent == event.data.object
  IN [payment_id |-> Get(paymentIntent, "id"),
      customer_email |-> Or(Get(paymentIntent, "receipt_email"), Str("Unknown")),
      amount |-> Get(paymentIntent, "amount"),
      currency |-> Get(paymentIntent, "currency"),
      failure_code |-> OptGet(Get(paymentIntent, "last_payment_error"), "code"),
      failure_message |-> OptGet(Get(paymentIntent, "last_payment_error"), "message"),
      failed_at |-> ToISOString(event.created)]

\* lines 141-150
FromInvoice(event) ==
  LET invoice == event.data.object
  IN [payment_id |-> Get(invoice, "id"),
      customer_email |-> Or(Get(invoice, "customer_email"), Str("Unknown")),
      amount |-> Get(invoice, "amount_due"),
      currency |-> Get(invoice, "currency"),
      failure_code |-> Str("invoice_payment_failed"),
      failure_message |-> Str("Invoice payment failed"),
      failed_at |-> ToISOString(event.created)]

\* a charge mapped without the "Unknown" default
FromChargeNoDefault(event) ==
  LET charge == event.data.object
  IN [payment_id |-> Get(charge, "id"),
      customer_email |->
        Or(Get(charge, "receipt_email"), OptGet(Get(charge, "billing_details"), "email")),
      amount |-> Get(charge, "amount"),
      currency |-> Get(charge, "currency"),
      failure_code |-> Get(charge, "failure_code"),
      failure_message |-> Get(charge, "failure_message"),
      failed_at |-> ToISOString(event.created)]

\* a charge whose billing email is taken before its receipt email
FromChargeBillingFirst(event) ==
  LET charge == event.data.object
  IN [payment_id |-> Get(charge, "id"),
      customer_email |->
        Or(OptGet(Get(charge, "billing_details"), "email"),
           Or(Get(charge, "receipt_email"), Str("Unknown"))),
      amount |-> Get(charge, "amount"),
      currency |-> Get(charge, "currency"),
      failure_code |-> Get(charge, "failure_code"),
      failure_message |-> Get(charge, "failure_message"),
      failed_at |-> ToISOString(event.created)]

\* lines 152-161
FromCharge(event) ==
  LET charge == event.data.object
  IN [payment_id |-> Get(charge, "id"),
      customer_email |->
        Or(Get(charge, "receipt_email"),
           Or(OptGet(Get(charge, "billing_details"), "email"), Str("Unknown"))),
      amount |-> Get(charge, "amount"),
      currency |-> Get(charge, "currency"),
      failure_code |-> Get(charge, "failure_code"),
      failure_message |-> Get(charge, "failure_message"),
      failed_at |-> ToISOString(event.created)]

BuildPaymentData(event) ==
  IF event.type = "payment_intent.payment_failed" THEN FromPaymentIntent(event)
  ELSE IF event.type = "invoice.payment_failed" THEN FromInvoice(event)
  ELSE IF event.type = "charge.failed" THEN FromCharge(event)
  ELSE EmptyObject

(***************************************************************************)
(* What the two channels hand to their providers.                          *)
(***************************************************************************)
\* String.prototype.toUpperCase, over the currency codes of the payloads
ToUpperCase(s) ==
  CASE s = Str("usd") -> Str("USD")
    [] s = Str("eur") -> Str("EUR")
    [] OTHER -> s

\* n / 100 as <<units, hundredths>>; NaN for a missing amount
DivideBy100(n) ==
  IF DOMAIN n = {"num"} THEN Num(<<n.num \div 100, n.num % 100>>) ELSE Str("NaN")

\* sendGmailAlert, lines 49-80: the parts of subject and body taken from the record
GmailMessage(paymentData) ==
  [subject |-> Or(Get(paymentData, "customer_email"), Str("Unknown Customer")),
   payment_id |-> Get(paymentData, "payment_id"),
   customer |-> Or(Get(paymentData, "customer_email"), Str("Not available")),
   amount |-> DivideBy100(Get(paymentData, "amount")),
   currency |-> ToUpperCase(Get(paymentData, "currency")),
   failure_code |-> Or(Get(paymentData, "failure_code"), Str("Not specified")),
   failure_message |-> Or(Get(paymentData, "failure_message"), Str("Not specified")),
   date |-> Get(paymentData, "failed_at")]

\* addToAirtable, lines 102-112: the fields of the row (Created At left out)
AirtableFields(paymentData) ==
  [PaymentID |-> Get(paymentData, "payment_id"),
   CustomerEmail |-> Or(Get(paymentData, "customer_email"), Str("Unknown")),
   Amount |-> DivideBy100(Get(paymentData, "amount")),
   Currency |-> ToUpperCase(Get(paymentData, "currency")),
   FailureCode |-> Or(Get(paymentData, "failure_code"), Str("Unknown")),
   FailureMessage |-> Or(Get(paymentData, "failure_message"), Str("Unknown")),
   FailedAt |-> Get(paymentData, "failed_at"),
   Status |-> Str("New")]

\* paymentData.currency.toUpperCase() throws a TypeError unless currency is a string
TypeErrorMessage == "Cannot read properties of undefined (reading 'toUpperCase')"
GmailErrorMessage == "invalid_grant"
AirtableErrorMessage == "NOT_AUTHORIZED"

(***************************************************************************)
(* The log, lines 33-44.  Every entry is a fresh object; the clock read by *)
(* new Date() advances between two calls, which tells the entries apart.   *)
(***************************************************************************)
LogCapacity == 50
LogsShown == 20

Entry(t, message) == [timestamp |-> ToISOString(t), message |-> message]

\* a trim taken of the array as it was before the push: a full log loses
\* the entry being appended
addLogTrimsBeforePush(l, t, message) ==
  IF Len(l) + 1 > LogCapacity THEN SliceFrom(l, 0 - LogCapacity)
  ELSE Append(l, Entry(t, message))

\* a trim that keeps the first 50 entries: logs.slice(0, 50)
addLogKeepsOldest(l, t, message) ==
  LET pushed == Append(l, Entry(t, message))
  IN IF Len(pushed) > LogCapacity THEN SubSeq(pushed, 1, LogCapacity) ELSE pushed

addLog(l, t, message) ==
  LET pushed == Append(l, Entry(t, message))
  IN IF Len(pushed) > LogCapacity THEN SliceFrom(pushed, 0 - LogCapacity) ELSE pushed

\* the addLog calls of one turn, in call order, the first one at time t
RECURSIVE AddLogs(_, _, _)
AddLogs(l, t, messages) ==
  IF messages = <<>> THEN l
  ELSE AddLogs(addLog(l, t, Head(messages)), t + 1, Tail(messages))

Entries(t, messages) == [i \in 1 .. Len(messages) |-> Entry(t + i - 1, messages[i])]

(***************************************************************************)
(* One turn of a handler, as a function of what it was given: the log      *)
(* messages it appends, the calls it makes (trace), where it suspends or   *)
(* ends (pc) and the response it sends.                                    *)
(*   ctx = [route, event, paymentData]     acc = [messages, trace]         *)
(***************************************************************************)
NoRes == [sent |-> FALSE]
Call(fn, arg) == [call |-> fn, arg |-> arg]
Ret(fn, ok) == [ret |-> fn, ok |-> ok]
Log(acc, message) == [acc EXCEPT !.messages = Append(@, message)]
Traced(acc, entry) == [acc EXCEPT !.trace = Append(@, entry)]
Turn(pc, acc, res) ==
  [pc |-> pc, messages |-> acc.messages, trace |-> acc.trace, res |-> res]

\* lines 172, 195, 204 (webhook) and 259-265 (test): both channels returned;
\* route "direct" is processFailedPayment called by itself: line 172 and the
\* return of the function
Completed(ctx, acc) ==
  IF ctx.route = "direct"
    THEN Turn("done",
              Log(acc, <<"Successfully processed failed payment: ",
                         Get(ctx.paymentData, "payment_id")>>),
              [returned |-> TRUE])
  ELSE IF ctx.route = "webhook"
    THEN Turn("done",
              Log(Log(acc, <<"Successfully processed failed payment: ",
                             Get(ctx.paymentData, "payment_id")>>),
                  <<"Webhook processed successfully: ", ctx.event.type>>),
              [status |-> 200, body |-> [received |-> TRUE]])
    ELSE Turn("done",
              Log(acc, <<"Manual test completed successfully">>),
              [status |-> 200,
               body |-> [success |-> TRUE, message |-> "Test completed successfully",
                         testData |-> ctx.paymentData]])

\* a catch that logs the error and sends no response
EscapedWithoutResponse(ctx, acc, message) ==
  IF ctx.route = "webhook"
    THEN Turn("done",
              Log(Log(acc, <<"Error processing failed payment: ", message>>),
                  <<"Error processing webhook: ", message>>),
              NoRes)
    ELSE Turn("done", Log(acc, <<"Manual test failed: ", message>>), NoRes)

\* lines 173-176 and 196-199 (webhook), 266-272 (test): an error left a channel;
\* route "direct": lines 173-176, the error is thrown to the caller
Escaped(ctx, acc, message) ==
  IF ctx.route = "direct"
    THEN Turn("done",
              Log(acc, <<"Error processing failed payment: ", message>>),
              [threw |-> message])
  ELSE IF ctx.route = "webhook"
    THEN Turn("done",
              Log(Log(acc, <<"Error processing failed payment: ", message>>),
                  <<"Error processing webhook: ", message>>),
              [status |-> 500, body |-> "Internal Server Error"])
    ELSE Turn("done",
              Log(acc, <<"Manual test failed: ", message>>),
              [status |-> 500, body |-> [success |-> FALSE, error |-> message]])

\* a catch of addToAirtable that only logs
AddToAirtableSwallows == FALSE

\* line 120: the catch of addToAirtable throws the error on
AddToAirtableRethrows == TRUE

\* a catch of sendGmailAlert that throws the error on, as that of addToAirtable does
SendGmailAlertThrowsOn == TRUE

\* lines 90-92: the catch of sendGmailAlert logs the error and returns
SendGmailAlertRethrows == FALSE

\* lines 118-121
AirtableThrew(ctx, acc, message) ==
  LET logged == Log(acc, <<"Error adding to Airtable: ", message>>)
  IN IF AddToAirtableRethrows THEN Escaped(ctx, logged, message)
     ELSE Completed(ctx, logged)

\* lines 116-117
AirtableCreated(ctx, acc, id) ==
  Completed(ctx, Log(acc, <<"Added failed payment record to Airtable: ", id>>))

\* an alert that has written the upper-cased currency back into the record
\* before the store is entered
EnterAirtableAfterWrite(ctx, acc) ==
  IF IsString(Get(ctx.paymentData, "currency"))
    THEN LET written == [ctx.paymentData EXCEPT !.currency = ToUpperCase(@)]
             entered == Traced(acc, Call("addToAirtable", written))
         IN Turn("awaitAirtable",
                 Traced(entered, Call("table.create", AirtableFields(written))),
                 NoRes)
    ELSE AirtableThrew(ctx, Traced(acc, Call("addToAirtable", ctx.paymentData)),
                       TypeErrorMessage)

\* lines 170 / 257 and 96-114: addToAirtable up to the await on table.create
EnterAirtable(ctx, acc) ==
  LET entered == Traced(acc, Call("addToAirtable", ctx.paymentData))
  IN IF IsString(Get(ctx.paymentData, "currency"))
       THEN Turn("awaitAirtable",
                 Traced(entered, Call("table.create", AirtableFields(ctx.paymentData))),
                 NoRes)
       ELSE AirtableThrew(ctx, entered, TypeErrorMessage)

\* a failed alert that ends the delivery as if it had been processed
GmailThrewSkipsStore(ctx, acc, message) ==
  Completed(ctx, Log(acc, <<"Error sending Gmail alert: ", message>>))

\* lines 90-92, then the caller goes on
GmailThrew(ctx, acc, message) ==
  LET logged == Log(acc, <<"Error sending Gmail alert: ", message>>)
  IN IF SendGmailAlertRethrows THEN Escaped(ctx, logged, message)
     ELSE EnterAirtable(ctx, logged)

\* line 89, then the caller goes on
GmailSent(ctx, acc) ==
  EnterAirtable(ctx, Log(acc, <<"Gmail alert sent for payment ",
                                Get(ctx.paymentData, "payment_id")>>))

\* lines 167 / 254 and 47-87: sendGmailAlert up to the await on gmail send
EnterGmail(ctx, acc) ==
  LET entered == Traced(acc, Call("sendGmailAlert", ctx.paymentData))
  IN IF IsString(Get(ctx.paymentData, "currency"))
       THEN Turn("awaitGmail",
                 Traced(entered,
                        Call("gmail.users.messages.send", GmailMessage(ctx.paymentData))),
                 NoRes)
       ELSE GmailThrew(ctx, entered, TypeErrorMessage)

\* lines 125-167: processFailedPayment from its entry
processFailedPayment(ctx, acc) ==
  EnterGmail(ctx,
             Log(Traced(acc, Call("processFailedPayment", ctx.event)),
                 <<"Processing failed payment: ", Get(ctx.paymentData, "payment_id")>>))

(***************************************************************************)
(* stripe.webhooks.constructEvent(req.body, sig, secret), line 185.        *)
(* body = [kind, payload]: kind "buffer" is the raw bytes of the request   *)
(* (payload: the event they encode, or Malformed), kind "object" a value   *)
(* parsed from them, kind "unset" a body no parser has read.  sig is       *)
(* "valid" when the header carries the HMAC of the raw bytes under the     *)
(* webhook secret.  The library signs what it is given: an object is not   *)
(* the bytes that were signed, and JSON.parse of it fails.                 *)
(***************************************************************************)
Malformed == [malformed |-> TRUE]
Buffer(payload) == [kind |-> "buffer", payload |-> payload]
Parsed(payload) == [kind |-> "object", payload |-> payload]
Unset == [kind |-> "unset", payload |-> Undefined]

constructEvent(body, sig) ==
  IF body.kind = "unset"
    THEN [threw |-> TRUE, message |-> "No webhook payload was provided."]
  ELSE IF sig = "missing"
    THEN [threw |-> TRUE, message |-> "No stripe-signature header value was provided."]
  ELSE IF body.kind # "buffer"
    THEN [threw |-> TRUE, message |-> "Webhook payload must be provided as a string or a Buffer"]
  ELSE IF sig # "valid"
    THEN [threw |-> TRUE, message |-> "No signatures found matching the expected signature for payload."]
  ELSE IF body.payload = Malformed
    THEN [threw |-> TRUE, message |-> "Unexpected token in JSON"]
  ELSE [threw |-> FALSE, event |-> body.payload]

\* a list of types with one tag too many
IsRecognizedOrCustomer(type) == type \in RecognizedTypes \cup {"customer.created"}

\* line 192
IsRecognized(type) == type \in RecognizedTypes

\* lines 191-205: the handler once the event is verified
Accepted(verifiedEvent, acc) ==
  IF IsRecognized(verifiedEvent.type)
    THEN LET data == BuildPaymentData(verifiedEvent)
         IN [event |-> verifiedEvent, paymentData |-> data] @@
            processFailedPayment(
              [route |-> "webhook", event |-> verifiedEvent, paymentData |-> data], acc)
    ELSE [event |-> verifiedEvent, paymentData |-> Undefined] @@
         Turn("done",
              Log(acc, <<"Unhandled event type: ", verifiedEvent.type>>),
              [status |-> 200, body |-> [received |-> TRUE]])

\* a catch that logs the failure and goes on with the payload as received
RejectedButHandled(request, acc, message) ==
  IF request.body.kind = "buffer" /\ request.body.payload # Malformed
    THEN Accepted(request.body.payload,
                  Log(acc, <<"Webhook signature verification failed: ", message>>))
    ELSE [event |-> Undefined, paymentData |-> Undefined] @@
         Turn("done",
              Log(acc, <<"Webhook signature verification failed: ", message>>),
              [status |-> 400, body |-> <<"Webhook Error: ", message>>])

\* lines 186-189: the catch of the verification
Rejected(request, acc, message) ==
  [event |-> Undefined, paymentData |-> Undefined] @@
  Turn("done",
       Log(acc, <<"Webhook signature verification failed: ", message>>),
       [status |-> 400, body |-> <<"Webhook Error: ", message>>])

\* lines 180-205: the webhook handler from its entry
\* request = [route, body, sig]
WebhookTurn(request) ==
  LET verified == constructEvent(request.body, request.sig)
      acc == [messages |-> <<>>,
              trace |-> <<Ret("stripe.webhooks.constructEvent", ~verified.threw)>>]
  IN IF verified.threw
       THEN Rejected(request, acc, verified.message)
       ELSE Accepted(verified.event, acc)

\* lines 238-257: the manual test from its entry, at time t
TestTurn(t) ==
  LET testPaymentData ==
        [payment_id |-> Str(<<"test_", t + 1>>),
         customer_email |-> Str("test@example.com"),
         amount |-> Num(2500),
         currency |-> Str("usd"),
         failure_code |-> Str("card_declined"),
         failure_message |-> Str("Your card was declined."),
         failed_at |-> ToISOString(t + 1)]
  IN [event |-> Undefined, paymentData |-> testPaymentData] @@
     EnterGmail([route |-> "test", event |-> Undefined, paymentData |-> testPaymentData],
                [messages |-> <<<<"Manual test initiated">>>>, trace |-> <<>>])

(***************************************************************************)
(* State.                                                                  *)
(***************************************************************************)
VARIABLES
  listening,    \* the callback of app.listen has run (line 281)
  logs,         \* the log array (line 33)
  appended,     \* history: every entry ever pushed by addLog, in call order
  clock,        \* the time new Date() reads
  pc,           \* per delivery: where its handler stands
  req,          \* per delivery: the request
  event,        \* per delivery: the verified event (line 185)
  paymentData,  \* per delivery: the record (line 127 / 243)
  trace,        \* per delivery, history: calls made and external results, in order
  res,          \* per delivery: the response sent
  logsRes       \* the latest response of GET /logs

vars == <<listening, logs, appended, clock, pc, req, event, paymentData, trace, res,
          logsRes>>
delivery == <<pc, req, event, paymentData, trace, res>>

NoReq == [route |-> "none"]

Init ==
  /\ listening = FALSE
  /\ logs = <<>>
  /\ appended = <<>>
  /\ clock = 0
  /\ pc = [d \in Deliveries |-> "idle"]
  /\ req = [d \in Deliveries |-> NoReq]
  /\ event = [d \in Deliveries |-> Undefined]
  /\ paymentData = [d \in Deliveries |-> Undefined]
  /\ trace = [d \in Deliveries |-> <<>>]
  /\ res = [d \in Deliveries |-> NoRes]
  /\ logsRes = NoRes

\* the addLog calls of one turn
Logged(messages) ==
  /\ logs' = AddLogs(logs, clock, messages)
  /\ appended' = appended \o Entries(clock, messages)
  /\ clock' = clock + Len(messages)

\* lines 281-283
Listen ==
  /\ ~listening
  /\ listening' = TRUE
  /\ Logged(<<<<"Stripe Payment Monitor started on port ", 3000>>>>)
  /\ UNCHANGED <<delivery, logsRes>>

\* the first turn of a handler: turn = WebhookTurn(request) or TestTurn(clock)
Enter(d, request, turn) ==
  /\ req' = [req EXCEPT ![d] = request]
  /\ event' = [event EXCEPT ![d] = turn.event]
  /\ paymentData' = [paymentData EXCEPT ![d] = turn.paymentData]
  /\ pc' = [pc EXCEPT ![d] = turn.pc]
  /\ trace' = [trace EXCEPT ![d] = turn.trace]
  /\ res' = [res EXCEPT ![d] = turn.res]
  /\ Logged(turn.messages)
  /\ UNCHANGED <<listening, logsRes>>

\* a later turn of a handler
Resume(d, turn) ==
  /\ pc' = [pc EXCEPT ![d] = turn.pc]
  /\ trace' = [trace EXCEPT ![d] = turn.trace]
  /\ res' = [res EXCEPT ![d] = turn.res]
  /\ Logged(turn.messages)
  /\ UNCHANGED <<listening, req, event, paymentData, logsRes>>

\* one record for the whole module instead of one for each call: a turn
\* reads the record of the delivery that arrived last
ContextOfLatest(d) ==
  LET latest == CHOOSE e \in Deliveries :
                  pc[e] # "idle" /\ \A f \in Deliveries : pc[f] # "idle" => f <= e
  IN [route |-> req[d].route, event |-> event[d], paymentData |-> paymentData[latest]]

Context(d) ==
  [route |-> req[d].route, event |-> event[d], paymentData |-> paymentData[d]]
Returned(d, fn, ok) ==
  [messages |-> <<>>, trace |-> Append(trace[d], Ret(fn, ok))]

\* a request arrives once the server listens; deliveries are numbered as they arrive
Arrives(d) ==
  /\ listening
  /\ pc[d] = "idle"
  /\ \A e \in Deliveries : e < d => pc[e] # "idle"

\* POST /webhook/stripe, lines 180-205, handed request by the router
WebhookStripe(d, request) ==
  /\ Arrives(d)
  /\ Enter(d, request, WebhookTurn(request))

\* POST /test, lines 238-257
PostTest(d) ==
  /\ Arrives(d)
  /\ Enter(d, [route |-> "test"], TestTurn(clock))

\* gmail.users.messages.send resolves (line 82): lines 89, 170 / 257, 96-114
GmailSendResolves(d) ==
  /\ pc[d] = "awaitGmail"
  /\ Resume(d, GmailSent(Context(d), Returned(d, "gmail.users.messages.send", TRUE)))

\* gmail.users.messages.send rejects (line 82): lines 90-92, 170 / 257, 96-114
GmailSendRejects(d) ==
  /\ pc[d] = "awaitGmail"
  /\ Resume(d, GmailThrew(Context(d), Returned(d, "gmail.users.messages.send", FALSE),
                          GmailErrorMessage))

\* table.create resolves (line 100): lines 116-117, then 172, 195, 204 / 259-265
AirtableCreateResolves(d) ==
  /\ pc[d] = "awaitAirtable"
  /\ Resume(d, AirtableCreated(Context(d), Returned(d, "table.create", TRUE), "rec1"))

\* table.create rejects (line 100): lines 118-121, then 173-176, 196-199 / 266-272
AirtableCreateRejects(d) ==
  /\ pc[d] = "awaitAirtable"
  /\ Resume(d, AirtableThrew(Context(d), Returned(d, "table.create", FALSE),
                             AirtableErrorMessage))

\* the requests the router hands to the webhook handler in Spec
Signatures == {"valid", "invalid", "missing"}
AChargeFailed == CHOOSE e \in SomeEvents : e.type = "charge.failed"
HandlerRequests ==
  {[route |-> "webhook", body |-> Buffer(e), sig |-> "valid"] : e \in SomeEvents}
  \cup {[route |-> "webhook", body |-> Buffer(AChargeFailed), sig |-> "invalid"],
        [route |-> "webhook", body |-> Buffer(Malformed), sig |-> "valid"],
        [route |-> "webhook", body |-> Parsed(AChargeFailed), sig |-> "valid"]}

Next ==
  \/ Listen
  \/ \E d \in Deliveries, request \in HandlerRequests : WebhookStripe(d, request)
  \/ \E d \in Deliveries : GmailSendResolves(d)
  \/ \E d \in Deliveries : GmailSendRejects(d)
  \/ \E d \in Deliveries : AirtableCreateResolves(d)
  \/ \E d \in Deliveries : AirtableCreateRejects(d)

Spec == Init /\ [][Next]_vars

\* Spec where every external call that was started completes: the promise of
\* gmail.users.messages.send (line 82) and of table.create (line 100) settles,
\* one way or the other, and the event loop then runs the continuation
Settles(d) ==
  \/ GmailSendResolves(d)
  \/ GmailSendRejects(d)
  \/ AirtableCreateResolves(d)
  \/ AirtableCreateRejects(d)

SpecLive == Spec /\ \A d \in Deliveries : WF_vars(Settles(d))

\* the manual test route, requests arriving while earlier ones are in flight
NextTest ==
  \/ Listen
  \/ \E d \in Deliveries : PostTest(d)
  \/ \E d \in Deliveries : GmailSendResolves(d)
  \/ \E d \in Deliveries : GmailSendRejects(d)
  \/ \E d \in Deliveries : AirtableCreateResolves(d)
  \/ \E d \in Deliveries : AirtableCreateRejects(d)

SpecTest == Init /\ [][NextTest]_vars

(***************************************************************************)
(* GET /logs, lines 231-236.                                               *)
(***************************************************************************)
\* a response that counts the entries it shows
LogsResponseCountsShown(l) ==
  [status |-> 200,
   body |-> [logs |-> SliceFrom(l, 0 - LogsShown),
             total |-> Len(SliceFrom(l, 0 - LogsShown))]]

\* a response that shows the first 20 entries: logs.slice(0, 20)
LogsResponseShowsOldest(l) ==
  [status |-> 200,
   body |-> [logs |-> SubSeq(l, 1, IF Len(l) < LogsShown THEN Len(l) ELSE LogsShown),
             total |-> Len(l)]]

LogsResponse(l) ==
  [status |-> 200,
   body |-> [logs |-> SliceFrom(l, 0 - LogsShown), total |-> Len(l)]]

GetLogs ==
  /\ listening
  /\ logsRes' = LogsResponse(logs)
  /\ UNCHANGED <<listening, logs, appended, clock, delivery>>

(***************************************************************************)
(* SpecLog: a long run of requests, one after the other, each appending to *)
(* the log, with GET /logs in between.  The requests are webhook           *)
(* deliveries with a bad signature (one addLog each, line 187); a request  *)
(* takes the place of the one before it once that one has been answered.   *)
(***************************************************************************)
WebhookStripeNext(request) ==
  /\ listening
  /\ pc[1] \in {"idle", "done"}
  /\ Len(appended) < MaxLogged
  /\ Enter(1, request, WebhookTurn(request))

LogRequests == {[route |-> "webhook", body |-> Buffer(AChargeFailed), sig |-> "invalid"]}

NextLog ==
  \/ Listen
  \/ \E request \in LogRequests : WebhookStripeNext(request)
  \/ GetLogs

SpecLog == Init /\ [][NextLog]_vars

(***************************************************************************)
(* SpecBusy: deliveries in flight together while the log is at capacity.   *)
(* Earlier requests, each answered in the turn it arrived (a bad           *)
(* signature: one addLog, line 187, and the 400 of line 188), have left    *)
(* LoggedBefore entries when the deliveries that are followed arrive.      *)
(***************************************************************************)
EarlierRequest(request) ==
  /\ listening
  /\ Len(appended) < LoggedBefore
  /\ Logged(WebhookTurn(request).messages)
  /\ UNCHANGED <<listening, delivery, logsRes>>

WebhookStripeLater(d, request) ==
  /\ Len(appended) >= LoggedBefore
  /\ WebhookStripe(d, request)

BusyRequests ==
  {[route |-> "webhook", body |-> Buffer(AChargeFailed), sig |-> "valid"],
   [route |-> "webhook", body |-> Buffer(AChargeFailed), sig |-> "invalid"]}

NextBusy ==
  \/ Listen
  \/ \E request \in LogRequests : EarlierRequest(request)
  \/ \E d \in Deliveries, request \in BusyRequests : WebhookStripeLater(d, request)
  \/ \E d \in Deliveries : GmailSendResolves(d)
  \/ \E d \in Deliveries : GmailSendRejects(d)
  \/ \E d \in Deliveries : AirtableCreateResolves(d)
  \/ \E d \in Deliveries : AirtableCreateRejects(d)

SpecBusy == Init /\ [][NextBusy]_vars

(***************************************************************************)
(* SpecDirect: processFailedPayment (lines 125-177) called by itself with  *)
(* an event of any type, the recognized ones and others.  The handler of   *)
(* the webhook route only calls it after the test of line 192.             *)
(***************************************************************************)
ProcessFailedPaymentCalled(d, e) ==
  /\ pc[d] = "idle"
  /\ LET data == BuildPaymentData(e)
         ctx == [route |-> "direct", event |-> e, paymentData |-> data]
     IN Enter(d, [route |-> "direct", event |-> e],
              [event |-> e, paymentData |-> data] @@
              processFailedPayment(ctx, [messages |-> <<>>, trace |-> <<>>]))

NextDirect ==
  \/ \E e \in AllEvents : ProcessFailedPaymentCalled(1, e)
  \/ GmailSendResolves(1)
  \/ GmailSendRejects(1)
  \/ AirtableCreateResolves(1)
  \/ AirtableCreateRejects(1)

SpecDirect == Init /\ [][NextDirect]_vars

(***************************************************************************)
(* SpecNorm: one delivery, correctly signed, over every shape of upstream  *)
(* event.                                                                  *)
(***************************************************************************)
NormRequests ==
  {[route |-> "webhook", body |-> Buffer(e), sig |-> "valid"] : e \in AllEvents}

NextNorm ==
  \/ Listen
  \/ \E request \in NormRequests : WebhookStripe(1, request)
  \/ GmailSendResolves(1)
  \/ GmailSendRejects(1)
  \/ AirtableCreateResolves(1)
  \/ AirtableCreateRejects(1)

SpecNorm == Init /\ [][NextNorm]_vars

(***************************************************************************)
(* SpecChain: POST /webhook/stripe behind the middleware of lines 29-30.   *)
(* A request carries its content type, the bytes sent (raw: the event they *)
(* encode, or Malformed) and the signature header; body is req.body and    *)
(* parsed is the flag by which a body parser marks a request it has read.  *)
(* No delivery is verified behind this chain (ChainNeverVerifies), so the  *)
(* turns that follow a channel call do not occur in it.                    *)
(***************************************************************************)
ContentTypes == {"application/json", "application/json; charset=utf-8", "text/plain"}

\* type-is against 'application/json', the default type of express.json and the
\* type given to express.raw
IsJsonType(contentType) ==
  contentType \in {"application/json", "application/json; charset=utf-8"}

HttpRequests ==
  {[route |-> "webhook", contentType |-> c, raw |-> r, sig |-> s,
    body |-> Unset, parsed |-> FALSE] :
     c \in ContentTypes, r \in {AChargeFailed, Malformed}, s \in Signatures}

\* req.body of a request no parser has read: undefined, or {} as the body parsers
\* of Express 4 leave it
Untouched == {Unset, Parsed(EmptyObject)}

Receive(d, request) ==
  /\ Arrives(d)
  /\ req' = [req EXCEPT ![d] = request]
  /\ pc' = [pc EXCEPT ![d] = "express.json"]
  /\ UNCHANGED <<listening, logs, appended, clock, event, paymentData, trace, res, logsRes>>

\* line 29: express.json()
ExpressJson(d, untouched) ==
  /\ pc[d] = "express.json"
  /\ IF req[d].parsed
       THEN /\ pc' = [pc EXCEPT ![d] = "express.raw"]
            /\ req' = req
     ELSE IF ~IsJsonType(req[d].contentType)
       THEN /\ pc' = [pc EXCEPT ![d] = "express.raw"]
            /\ req' = [req EXCEPT ![d].body = untouched]
     ELSE IF req[d].raw = Malformed
       THEN /\ pc' = [pc EXCEPT ![d] = "error"]
            /\ req' = [req EXCEPT ![d].body = untouched, ![d].parsed = TRUE]
     ELSE /\ pc' = [pc EXCEPT ![d] = "express.raw"]
          /\ req' = [req EXCEPT ![d].body = Parsed(req[d].raw), ![d].parsed = TRUE]
  /\ UNCHANGED <<listening, logs, appended, clock, event, paymentData, trace, res, logsRes>>

\* line 30: express.raw({ type: 'application/json' })
ExpressRaw(d) ==
  /\ pc[d] = "express.raw"
  /\ pc' = [pc EXCEPT ![d] = "route"]
  /\ IF req[d].parsed \/ ~IsJsonType(req[d].contentType)
       THEN req' = req
       ELSE req' = [req EXCEPT ![d].body = Buffer(req[d].raw), ![d].parsed = TRUE]
  /\ UNCHANGED <<listening, logs, appended, clock, event, paymentData, trace, res, logsRes>>

\* lines 276-279: the error a body parser passed to next()
ErrorMiddleware(d) ==
  /\ pc[d] = "error"
  /\ pc' = [pc EXCEPT ![d] = "done"]
  /\ res' = [res EXCEPT ![d] = [status |-> 500, body |-> [error |-> "Internal Server Error"]]]
  /\ Logged(<<<<"Unhandled error: ", "Unexpected token in JSON">>>>)
  /\ UNCHANGED <<listening, req, event, paymentData, trace, logsRes>>

\* lines 180-205, reached through the chain
WebhookStripeRouted(d) ==
  /\ pc[d] = "route"
  /\ Enter(d, req[d], WebhookTurn(req[d]))

NextChain ==
  \/ Listen
  \/ \E d \in Deliveries, request \in HttpRequests : Receive(d, request)
  \/ \E d \in Deliveries, untouched \in Untouched : ExpressJson(d, untouched)
  \/ \E d \in Deliveries : ExpressRaw(d)
  \/ \E d \in Deliveries : ErrorMiddleware(d)
  \/ \E d \in Deliveries : WebhookStripeRouted(d)

SpecChain == Init /\ [][NextChain]_vars

(***************************************************************************)
(* Reading the history of a delivery.                                      *)
(***************************************************************************)
IsCallOf(e, fn) == "call" \in DOMAIN e /\ e.call = fn
IsRetOf(e, fn, ok) == "ret" \in DOMAIN e /\ e.ret = fn /\ e.ok = ok
CallsAt(d, fn) == {i \in DOMAIN trace[d] : IsCallOf(trace[d][i], fn)}
CallCount(d, fn) == Cardinality(CallsAt(d, fn))
RetsAt(d, fn, ok) == {i \in DOMAIN trace[d] : IsRetOf(trace[d][i], fn, ok)}
HasRet(d, fn, ok) == RetsAt(d, fn, ok) # {}
Status(d) == IF "status" \in DOMAIN res[d] THEN res[d].status ELSE 0

ChannelFns ==
  {"sendGmailAlert", "gmail.users.messages.send", "addToAirtable", "table.create"}
NoChannelCall(d) == \A fn \in ChannelFns : CallCount(d, fn) = 0

VerificationFailed(d) ==
  req[d].route = "webhook" /\ HasRet(d, "stripe.webhooks.constructEvent", FALSE)
Verified(d) ==
  req[d].route = "webhook" /\ HasRet(d, "stripe.webhooks.constructEvent", TRUE)
VerifiedRecognized(d) == Verified(d) /\ event[d].type \in RecognizedTypes
GmailFailed(d) == HasRet(d, "gmail.users.messages.send", FALSE)
StoreFailed(d) == HasRet(d, "table.create", FALSE)
StoreSucceeded(d) == HasRet(d, "table.create", TRUE)

(***************************************************************************)
(* C1.  A delivery whose signature verification fails is answered 400, and *)
(* neither processFailedPayment nor sendGmailAlert nor addToAirtable is    *)
(* invoked for it.                                                         *)
(***************************************************************************)
C1_RejectedUntouched ==
  \A d \in Deliveries :
    VerificationFailed(d) =>
      /\ pc[d] = "done"
      /\ Status(d) = 400
      /\ CallCount(d, "processFailedPayment") = 0
      /\ NoChannelCall(d)

C1_Witness ==
  \E d \in Deliveries :
    /\ VerificationFailed(d)
    /\ req[d].sig = "invalid"
    /\ req[d].body.payload.type \in RecognizedTypes
    /\ Status(d) = 400

(***************************************************************************)
(* C2.  A verified delivery whose event type is none of the three          *)
(* recognized ones is answered 200 {received: true}, and neither channel   *)
(* is invoked for it.                                                      *)
(***************************************************************************)
C2_UnhandledAcknowledged ==
  \A d \in Deliveries :
    (Verified(d) /\ event[d].type \notin RecognizedTypes) =>
      /\ pc[d] = "done"
      /\ res[d] = [status |-> 200, body |-> [received |-> TRUE]]
      /\ NoChannelCall(d)

C2_Witness ==
  \E d \in Deliveries :
    /\ Verified(d)
    /\ event[d].type = "customer.created"
    /\ Status(d) = 200

C5_BothAttemptedOnceInOrder ==
  \A d \in Deliveries :
    VerifiedRecognized(d) =>
      LET sends == CallsAt(d, "gmail.users.messages.send")
          sent == RetsAt(d, "gmail.users.messages.send", TRUE)
                    \cup RetsAt(d, "gmail.users.messages.send", FALSE)
          stores == CallsAt(d, "addToAirtable") \cup CallsAt(d, "table.create")
      IN /\ Cardinality(sends) = 1
         /\ CallCount(d, "sendGmailAlert") = 1
         /\ Cardinality(sent) <= 1
         /\ \A j \in stores : \E i \in sent : i < j
         /\ (sent # {}) <=> (pc[d] \in {"awaitAirtable", "done"})
         /\ (sent # {}) =>
              /\ CallCount(d, "addToAirtable") = 1
              /\ CallCount(d, "table.create") = 1

C5_Witness ==
  \E d \in Deliveries :
    /\ VerifiedRecognized(d)
    /\ pc[d] = "done"
    /\ GmailFailed(d)
    /\ StoreSucceeded(d)

(***************************************************************************)
(* Reading the history of the log.                                         *)
(***************************************************************************)
Smaller(a, b) == IF a < b THEN a ELSE b
\* the k most recent elements of s, in order (all of s when it has fewer)
MostRecent(s, k) ==
  LET m == Smaller(k, Len(s))
  IN [i \in 1 .. m |-> s[Len(s) - m + i]]

(***************************************************************************)
(* C7.  After any sequence of addLog calls the log holds at most 50        *)
(* entries, and after n appends it holds exactly the min(n, 50) most       *)
(* recently appended entries, in append order.                             *)
(***************************************************************************)
C7_LogKeepsNewestFifty ==
  /\ Len(logs) <= 50
  /\ Len(logs) = Smaller(Len(appended), 50)
  /\ logs = MostRecent(appended, 50)

C7_Witness ==
  /\ Len(appended) = 52
  /\ Len(logs) = 50
  /\ logs[1] = appended[3]

(***************************************************************************)
(* C8.  As claimed: the total returned by GET /logs equals the number of   *)
(* log appends made since process start, for any number of appends.        *)
(***************************************************************************)
C8_AsClaimed ==
  [][GetLogs => logsRes'.body.total = Len(appended')]_vars

(***************************************************************************)
(* C8, amended.  The total returned by GET /logs equals the number of      *)
(* entries the log retains, min(n, 50) after n appends; it equals the      *)
(* number of appends only while there have been at most 50.                *)
(***************************************************************************)
C8_TotalIsRetainedCount ==
  [][GetLogs => logsRes'.body.total = Smaller(Len(appended'), 50)]_vars

C8_Witness ==
  /\ "body" \in DOMAIN logsRes
  /\ Len(appended) = 51
  /\ logsRes.body.total = 50
  /\ logsRes.body.logs[20] = appended[51]

(***************************************************************************)
(* C9.  After n appends the logs returned by GET /logs are exactly the     *)
(* min(n, 20) most recently appended entries, in append order, and         *)
(* GET /logs leaves the log unchanged.                                     *)
(***************************************************************************)
C9_LogsShowNewestTwenty ==
  [][GetLogs => /\ logsRes'.body.logs = MostRecent(appended, 20)
                /\ Len(logsRes'.body.logs) = Smaller(Len(appended), 20)
                /\ logs' = logs
                /\ appended' = appended]_vars

C9_Witness ==
  /\ "body" \in DOMAIN logsRes
  /\ Len(appended) = 21
  /\ Len(logsRes.body.logs) = 20
  /\ logsRes.body.logs[1] = appended[2]
  /\ logsRes.body.logs[20] = appended[21]

(***************************************************************************)
(* Reading the records handed to the channels.                             *)
(***************************************************************************)
RecordFields ==
  {"payment_id", "customer_email", "amount", "currency",
   "failure_code", "failure_message", "failed_at"}
\* the records handed to sendGmailAlert and to addToAirtable in delivery d
HandedRecords(d) ==
  {trace[d][i].arg : i \in CallsAt(d, "sendGmailAlert") \cup CallsAt(d, "addToAirtable")}

(***************************************************************************)
(* C10.  As claimed: for every recognized event, whatever optional         *)
(* sub-fields are present upstream, the record handed to either channel    *)
(* has all seven fields defined.                                           *)
(***************************************************************************)
C10_AsClaimed ==
  \A d \in Deliveries :
    VerifiedRecognized(d) =>
      \A r \in HandedRecords(d) :
        \A f \in RecordFields : f \in DOMAIN r /\ r[f] # Undefined

(***************************************************************************)
(* C10, amended.  For every recognized event the record handed to either   *)
(* channel has payment_id, customer_email, amount, currency and failed_at  *)
(* defined.  failure_code and failure_message are the two constants for an *)
(* invoice; for a charge they are the charge's failure_code and            *)
(* failure_message and for a payment intent the code and message of its    *)
(* last_payment_error, undefined when that sub-field is absent upstream.   *)
(***************************************************************************)
C10_RecordDefinedUpToFailureFields ==
  \A d \in Deliveries :
    VerifiedRecognized(d) =>
      \A r \in HandedRecords(d) :
        LET object == event[d].data.object
            lastError == Get(object, "last_payment_error")
        IN /\ DOMAIN r = RecordFields
           /\ \A f \in RecordFields \ {"failure_code", "failure_message"} :
                r[f] \notin {Undefined, JsNull}
           /\ event[d].type = "invoice.payment_failed" =>
                /\ r.failure_code = Str("invoice_payment_failed")
                /\ r.failure_message = Str("Invoice payment failed")
           /\ event[d].type = "charge.failed" =>
                /\ r.failure_code = Get(object, "failure_code")
                /\ r.failure_message = Get(object, "failure_message")
           /\ event[d].type = "payment_intent.payment_failed" =>
                IF lastError \in {Undefined, JsNull}
                  THEN r.failure_code = Undefined /\ r.failure_message = Undefined
                  ELSE /\ r.failure_code = Get(lastError, "code")
                       /\ r.failure_message = Get(lastError, "message")

C10_Witness ==
  \E d \in Deliveries :
    /\ VerifiedRecognized(d)
    /\ event[d].type = "charge.failed"
    /\ Get(event[d].data.object, "receipt_email") = JsNull
    /\ Get(event[d].data.object, "billing_details") = Undefined
    /\ Get(event[d].data.object, "failure_code") = Undefined
    /\ CallCount(d, "addToAirtable") = 1
    /\ \A r \in HandedRecords(d) :
         r.customer_email = Str("Unknown") /\ r.failure_code = Undefined

(***************************************************************************)
(* C11.  For each of the three recognized types, the record handed to the  *)
(* channels carries the upstream object's amount (amount_due for an        *)
(* invoice), its currency unchanged, its id as payment_id, and as          *)
(* failed_at the envelope's created time, given in epoch seconds, written  *)
(* as an ISO instant.  The instants expected for the created times of the  *)
(* model are stated here as calendar fields                                *)
(* <<year, month, day, hour, minute, second, millisecond>>.                *)
(***************************************************************************)
InstantOf(created) ==
  CASE created = 951782399 -> <<2000, 2, 28, 23, 59, 59, 0>>
    [] created = 1709251199 -> <<2024, 2, 29, 23, 59, 59, 0>>
    [] created = 1756505314 -> <<2025, 8, 29, 22, 8, 34, 0>>

AmountField(type) == IF type = "invoice.payment_failed" THEN "amount_due" ELSE "amount"

C11_RecordCarriesUpstreamValues ==
  \A d \in Deliveries :
    VerifiedRecognized(d) =>
      \A r \in HandedRecords(d) :
        LET object == event[d].data.object
        IN /\ r.amount = object[AmountField(event[d].type)]
           /\ r.currency = object.currency
           /\ r.payment_id = object.id
           /\ r.failed_at = [str |-> InstantOf(event[d].created)]

\* an invoice of 29 February 2024 handed to both channels with its amount_due
C11_Witness ==
  \E d \in Deliveries :
    /\ pc[d] = "done"
    /\ VerifiedRecognized(d)
    /\ event[d].type = "invoice.payment_failed"
    /\ event[d].created = 1709251199
    /\ CallCount(d, "addToAirtable") = 1
    /\ \A r \in HandedRecords(d) :
         /\ r.amount = Num(990)
         /\ r.currency = Str("eur")
         /\ r.payment_id = Str("in_1")
         /\ r.failed_at = Str(<<2024, 2, 29, 23, 59, 59, 0>>)

(***************************************************************************)
(* C18.  customer_email is the first non-empty value among the type's      *)
(* ordered sources (payment intent: receipt_email; invoice:                *)
(* customer_email; charge: receipt_email, then billing_details.email), and *)
(* is "Unknown" exactly when every source is absent or empty; it is never  *)
(* empty or undefined.                                                     *)
(***************************************************************************)
\* a string of at least one character
NonEmpty(v) == DOMAIN v = {"str"} /\ v.str # ""

\* the billing email of a charge, Undefined where there are no billing details
BillingEmail(object) ==
  IF "email" \in DOMAIN object.billing_details
    THEN object.billing_details.email ELSE Undefined

EmailSources(e) ==
  CASE e.type = "payment_intent.payment_failed" -> <<e.data.object.receipt_email>>
    [] e.type = "invoice.payment_failed" -> <<e.data.object.customer_email>>
    [] e.type = "charge.failed" ->
         <<e.data.object.receipt_email, BillingEmail(e.data.object)>>

C18_EmailIsFirstNonEmptySource ==
  \A d \in Deliveries :
    VerifiedRecognized(d) =>
      \A r \in HandedRecords(d) :
        LET sources == EmailSources(event[d])
            filled == {i \in DOMAIN sources : NonEmpty(sources[i])}
        IN /\ NonEmpty(r.customer_email)
           /\ (filled = {}) <=> (r.customer_email = Str("Unknown"))
           /\ filled # {} =>
                \E i \in filled :
                  /\ r.customer_email = sources[i]
                  /\ \A j \in filled : i <= j

\* a charge with both emails, handed over with its receipt email; the model
\* also holds a charge with an empty receipt email and a billing email
C18_Witness ==
  \E d \in Deliveries :
    /\ pc[d] = "done"
    /\ VerifiedRecognized(d)
    /\ event[d].type = "charge.failed"
    /\ event[d].data.object.receipt_email = Str("a@b.com")
    /\ event[d].data.object.billing_details = [email |-> Str("bill@b.com")]
    /\ CallCount(d, "addToAirtable") = 1
    /\ \A r \in HandedRecords(d) : r.customer_email = Str("a@b.com")

(***************************************************************************)
(* C6.  As claimed: for a request with a JSON content type, once the       *)
(* middleware chain has run, the body handed to signature verification is  *)
(* the raw bytes as received, never an already parsed object (hence a      *)
(* correctly signed delivery can be verified).                             *)
(***************************************************************************)
C6_AsClaimed ==
  \A d \in Deliveries :
    (req[d].route = "webhook" /\ IsJsonType(req[d].contentType)) =>
      /\ pc[d] = "route" => req[d].body = Buffer(req[d].raw)
      /\ (pc[d] = "done" /\ req[d].sig = "valid" /\ req[d].raw # Malformed) =>
           Verified(d)

\* what the chain does instead: no delivery reaches the Verified state
ChainNeverVerifies ==
  \A d \in Deliveries : ~HasRet(d, "stripe.webhooks.constructEvent", TRUE)

(***************************************************************************)
(* C12.  Provided every external channel call that is started completes,   *)
(* every delivery to POST /webhook/stripe is eventually answered, with 200, *)
(* 400 or 500; the response once sent is the only one (it never changes);  *)
(* and within a delivery no step is run more than once: one verification,  *)
(* at most one call of processFailedPayment, of each channel function and  *)
(* of each external channel call, so nothing is retried.                   *)
(***************************************************************************)
Steps == ChannelFns \cup {"processFailedPayment"}
Answered(d) == Status(d) \in {200, 400, 500}
Verifications(d) ==
  RetsAt(d, "stripe.webhooks.constructEvent", TRUE)
    \cup RetsAt(d, "stripe.webhooks.constructEvent", FALSE)

\* the turns a delivery can still take before it is answered
Remaining(d) ==
  CASE pc[d] = "idle" -> 3
    [] pc[d] = "awaitGmail" -> 2
    [] pc[d] = "awaitAirtable" -> 1
    [] pc[d] = "done" -> 0

\* In finite-run form: a delivery not yet answered is suspended on one
\* external call (the guard of the actions that complete it); every turn of
\* a delivery brings it closer to its end; a response once sent never
\* changes; no step is counted twice.
C12_EveryDeliveryAnsweredOnce ==
  /\ [](\A d \in Deliveries :
          /\ req[d].route = "webhook" /\ ~Answered(d) =>
                pc[d] \in {"awaitGmail", "awaitAirtable"}
          /\ req[d].route = "webhook" => Cardinality(Verifications(d)) = 1
          /\ \A fn \in Steps : CallCount(d, fn) <= 1
          /\ Status(d) # 0 => pc[d] = "done" /\ Answered(d))
  /\ [][\A d \in Deliveries :
          /\ <<pc[d], trace[d], res[d]>>' # <<pc[d], trace[d], res[d]>> =>
                Remaining(d)' < Remaining(d)
          /\ Status(d) # 0 => res'[d] = res[d]]_vars

\* The same as a temporal property of SpecLive: every delivery that has
\* arrived is eventually answered.
C12_EventuallyAnswered ==
  \A d \in Deliveries : (req[d].route = "webhook") ~> Answered(d)

\* a delivery answered 500 after one verification, one alert and one store
\* attempt that failed, next to a delivery answered 400
C12_Witness ==
  \E d, e \in Deliveries :
    /\ Status(d) = 500
    /\ Cardinality(Verifications(d)) = 1
    /\ \A fn \in Steps : CallCount(d, fn) = 1
    /\ StoreFailed(d)
    /\ Status(e) = 400

(***************************************************************************)
(* POST /test: reading its response and its record.                        *)
(***************************************************************************)
IsTest(d) == req[d].route = "test"
SaysSuccess(d) == Status(d) # 0 /\ res[d].body.success = TRUE
GmailSucceeded(d) == HasRet(d, "gmail.users.messages.send", TRUE)
First(S) == CHOOSE i \in S : \A j \in S : i <= j

\* the record of the manual test goes to the alert, then to the store, each
\* entered at most once, and carries the fixed amount, currency and code
TestRecordHandedInOrder(d) ==
  /\ \A r \in HandedRecords(d) :
       /\ r = paymentData[d]
       /\ r.amount = Num(2500)
       /\ r.currency = Str("usd")
       /\ r.failure_code = Str("card_declined")
  /\ CallCount(d, "sendGmailAlert") = 1
  /\ CallCount(d, "gmail.users.messages.send") = 1
  /\ CallCount(d, "addToAirtable") <= 1
  /\ CallCount(d, "table.create") <= 1
  /\ CallCount(d, "addToAirtable") = 1 =>
       First(CallsAt(d, "sendGmailAlert")) < First(CallsAt(d, "addToAirtable"))
  /\ pc[d] = "done" =>
       CallCount(d, "addToAirtable") = 1 /\ CallCount(d, "table.create") = 1

AppendsOf(d) ==
  IF pc[d] = "idle" THEN 0
  ELSE IF ~VerifiedRecognized(d) THEN 1
  ELSE 1 + (IF GmailFailed(d) \/ HasRet(d, "gmail.users.messages.send", TRUE) THEN 1 ELSE 0)
         + (IF StoreFailed(d) \/ StoreSucceeded(d) THEN 3 ELSE 0)

RECURSIVE AppendsUpTo(_)
AppendsUpTo(d) == IF d = 0 THEN 0 ELSE AppendsOf(d) + AppendsUpTo(d - 1)

C14_NoAppendLost ==
  /\ logs = MostRecent(appended, 50)
  /\ (\E d \in Deliveries : pc[d] # "idle") =>
        Len(appended) = LoggedBefore + AppendsUpTo(MaxDeliveries)
  /\ \A i, j \in DOMAIN logs : i < j => logs[i] # logs[j]

\* two deliveries suspended on the store at once, their four entries
\* interleaved, with the log trimmed while both are in flight
C14_Witness ==
  /\ pc[1] = "awaitAirtable"
  /\ pc[2] = "awaitAirtable"
  /\ Len(appended) = LoggedBefore + 4
  /\ Len(logs) = 50
  /\ logs[1] = appended[Len(appended) - 49]
  /\ logs[49].message = <<"Error sending Gmail alert: ", GmailErrorMessage>>
  /\ logs[50].message = <<"Gmail alert sent for payment ", Str("ch_1")>>

(***************************************************************************)
(* C15.  With two or more deliveries in flight, a channel failure in one   *)
(* changes neither the record, nor the channel invocations, nor the        *)
(* response of any other: every turn changes the state of one delivery     *)
(* only; what a delivery hands to the channels is built from its own       *)
(* event; its response follows from its own verification, event type and   *)
(* channel results; and two deliveries with the same request and the same  *)
(* channel results have the same record, invocations and response,         *)
(* whatever happened to the others.                                        *)
(***************************************************************************)
StateOf(d) == <<pc[d], req[d], event[d], paymentData[d], trace[d], res[d]>>
IsRet(e) == "ret" \in DOMAIN e
\* the results delivery d has received so far: verification, alert, store
ResultsOf(d) == SelectSeq(trace[d], IsRet)
ArgsOf(d, fn) == {trace[d][i].arg : i \in CallsAt(d, fn)}

OwnOutcome(d) ==
  /\ VerificationFailed(d) => Status(d) = 400 /\ NoChannelCall(d)
  /\ Verified(d) /\ ~VerifiedRecognized(d) => Status(d) = 200 /\ NoChannelCall(d)
  /\ VerifiedRecognized(d) =>
       LET own == req[d].body.payload
       IN /\ event[d] = own
          /\ paymentData[d].payment_id = own.data.object.id
          /\ paymentData[d].amount = own.data.object[AmountField(own.type)]
          /\ ArgsOf(d, "sendGmailAlert") = {paymentData[d]}
          /\ ArgsOf(d, "addToAirtable") \subseteq {paymentData[d]}
          /\ ArgsOf(d, "gmail.users.messages.send") = {GmailMessage(paymentData[d])}
          /\ ArgsOf(d, "table.create") \subseteq {AirtableFields(paymentData[d])}
          /\ pc[d] = "done" =>
               /\ Status(d) = 500 <=> StoreFailed(d)
               /\ Status(d) = 200 <=> StoreSucceeded(d)

C15_DeliveriesIsolated ==
  /\ [](\A d \in Deliveries : req[d].route = "webhook" => OwnOutcome(d))
  /\ [](\A d, e \in Deliveries :
          d < e /\ req[d] = req[e] /\ ResultsOf(d) = ResultsOf(e) =>
            StateOf(d) = StateOf(e))
  /\ [][Cardinality({d \in Deliveries : StateOf(d)' # StateOf(d)}) <= 1]_vars

\* a charge whose alert and store both failed, answered 500, next to an
\* invoice handed to both channels untouched and answered 200
C15_Witness ==
  \E d, e \in Deliveries :
    /\ d # e
    /\ VerifiedRecognized(d) /\ event[d].type = "charge.failed"
    /\ GmailFailed(d) /\ StoreFailed(d) /\ Status(d) = 500
    /\ VerifiedRecognized(e) /\ event[e].type = "invoice.payment_failed"
    /\ GmailSucceeded(e) /\ StoreSucceeded(e) /\ Status(e) = 200
    /\ ArgsOf(e, "addToAirtable") = {paymentData[e]}
    /\ paymentData[e].payment_id = Str("in_1")

(***************************************************************************)
(* C17.  Within one delivery the record handed to the store channel is     *)
(* field for field the record handed to the notification channel: nothing  *)
(* changes it after it is built, also when the notification attempt failed *)
(* in between.                                                             *)
(***************************************************************************)
C17_RecordUnchangedBetweenChannels ==
  \A d \in Deliveries :
    \A i \in CallsAt(d, "sendGmailAlert"), j \in CallsAt(d, "addToAirtable") :
      /\ DOMAIN trace[d][j].arg = DOMAIN trace[d][i].arg
      /\ \A f \in DOMAIN trace[d][i].arg : trace[d][j].arg[f] = trace[d][i].arg[f]
      /\ trace[d][i].arg = paymentData[d]

\* a delivery whose alert failed and whose store was then handed the same
\* seven fields
C17_Witness ==
  \E d \in Deliveries :
    /\ VerifiedRecognized(d)
    /\ GmailFailed(d)
    /\ CallCount(d, "sendGmailAlert") = 1
    /\ CallCount(d, "addToAirtable") = 1
    /\ \A r \in HandedRecords(d) : DOMAIN r = RecordFields /\ r.currency = Str("usd")
    /\ Cardinality(HandedRecords(d)) = 1

(***************************************************************************)
(* C19.  For a verified delivery of a recognized type the response is      *)
(* determined by the result of the store channel alone: 200 if and only if *)
(* the store append succeeded, 500 if and only if it failed, whatever the  *)
(* outcome of the notification.  Two deliveries that differ only in the    *)
(* notification outcome get the same response and make the same store      *)
(* invocation.                                                             *)
(***************************************************************************)
StoreInvocations(d) ==
  <<ArgsOf(d, "addToAirtable"), ArgsOf(d, "table.create"),
    CallCount(d, "addToAirtable"), CallCount(d, "table.create")>>

C19_ResponseFollowsStoreOnly ==
  /\ \A d \in Deliveries :
       VerifiedRecognized(d) /\ pc[d] = "done" =>
         /\ StoreSucceeded(d) # StoreFailed(d)
         /\ Status(d) = 200 <=> StoreSucceeded(d)
         /\ Status(d) = 500 <=> StoreFailed(d)
  /\ \A d, e \in Deliveries :
       /\ d < e
       /\ pc[d] = "done" /\ pc[e] = "done"
       /\ req[d] = req[e]
       /\ VerifiedRecognized(d)
       /\ StoreSucceeded(d) = StoreSucceeded(e)
       => res[d] = res[e] /\ StoreInvocations(d) = StoreInvocations(e)

\* the same charge delivered twice, the alert failing once and succeeding
\* once, the store succeeding both times: both answered 200
C19_Witness ==
  \E d, e \in Deliveries :
    /\ VerifiedRecognized(d) /\ VerifiedRecognized(e)
    /\ req[d] = req[e]
    /\ GmailFailed(d) /\ GmailSucceeded(e)
    /\ StoreSucceeded(d) /\ StoreSucceeded(e)
    /\ Status(d) = 200 /\ Status(e) = 200
    /\ StoreInvocations(d) = StoreInvocations(e)
    /\ CallCount(d, "table.create") = 1

(***************************************************************************)
(* C16.  As claimed: processFailedPayment given an event whose type is     *)
(* none of the three recognized tags produces no record and causes no side *)
(* effects: it invokes neither channel and raises no error.                *)
(***************************************************************************)
IsDirect(d) == req[d].route = "direct"
Raised(d) == "threw" \in DOMAIN res[d]

C16_UnrecognizedRunsAndThrows ==
  \A d \in Deliveries :
    IsDirect(d) /\ event[d].type \notin RecognizedTypes =>
      /\ paymentData[d] = EmptyObject
      /\ pc[d] = "done"
      /\ ArgsOf(d, "sendGmailAlert") = {EmptyObject}
      /\ ArgsOf(d, "addToAirtable") = {EmptyObject}
      /\ CallCount(d, "gmail.users.messages.send") = 0
      /\ CallCount(d, "table.create") = 0
      /\ res[d] = [threw |-> TypeErrorMessage]
      /\ Len(appended) = 4

====
